---- MODULE Spec2Model ----
(***************************************************************************)
(* A model of the insightface demo: the FaceDB wrapper over the Qdrant     *)
(* "faces" collection (python-package/qdrant_db.py), the Flask handlers    *)
(* that call it (python-package/server) and the RTSP attendance loop       *)
(* (python-package/webcam_attendance.py).                                  *)
(*                                                                         *)
(* Embeddings.  An embedding is the record [len, x, y]: a vector of len    *)
(* components whose first two are x and y and whose others are 0.  The     *)
(* vectors used all have an integer norm (5 or 10), so their cosine        *)
(* similarity, in hundredths, is an integer computed exactly.  Scores and  *)
(* thresholds are in hundredths throughout: 55 stands for 0.55.            *)
(***************************************************************************)
EXTENDS Integers, Sequences, FiniteSets, TLC

VARIABLES
    collections,        \* the store: names of the collections that exist, with their configuration
    points,             \* the store: the records (id, vector, payload) of collection "faces"
    reachable,          \* the store answers requests
    nextId,             \* number of identifiers uuid4 made that reached the store
    db,                 \* a script holds a constructed FaceDB
    serverUp,           \* create_app() has run
    face_app,           \* server global face_app: "None" or "FaceAnalysis"
    facedb,             \* server global facedb: "None" or "FaceDB"
    before,             \* history: points before the most recent operation
    last,               \* history: the most recent wrapper call and its outcome
    resp,               \* history: the most recent HTTP request and its response
    script,             \* the recognition script that runs: webcam.py, webcam2.py or
                        \* webcam_attendance.py ("" when none does)
    running,            \* the script's main loop has not exited
    cap,                \* the capture: "open" or "released"
    frame_count,
    attendance_marked,
    attendance_tracker, \* person identifier -> time of the last mark
    stop_after_detection, \* STOP_AFTER_DETECTION, fixed when the script starts
    now,                \* time.time(), in seconds
    iter,               \* history: what the most recent loop iteration did; for a match,
                        \* `at` is the time it was seen and prevCall, prevAnswered are
                        \* callAt and answeredAt of the person then, prevFailed whether
                        \* the person was in callFailed
    callAt,             \* history: person -> time the last attendance call for them returned
    answeredAt,         \* history: person -> time the last call answered with a
                        \* non-empty JSON object returned, since the last reset
    callFailed,         \* history: the people whose last attendance call got no 200
                        \* answer (another status, a timeout, an exception)
    camera,             \* what cap.read() gets from the stream: "up" a frame, "down"
                        \* nothing, "?" when each read's outcome is left open
    pressed             \* the key waiting in the window's event queue for the next
                        \* cv2.waitKey ("" when none)

dbvars == <<collections, points, reachable, nextId, db, serverUp, face_app, facedb,
            before, last, resp>>
loopvars == <<script, running, cap, frame_count, attendance_marked, attendance_tracker,
              stop_after_detection, now, iter, callAt, answeredAt, callFailed,
              camera, pressed>>
vars == <<dbvars, loopvars>>

----------------------------------------------------------------------------
(* Bounds of the model *)

MaxAdds == 3            \* records added in one behaviour
MaxFrames == 15         \* frames read in one behaviour
MaxTime == 40           \* the clock stops here
TickStep == 10          \* seconds between two observations of the clock

(* Program constants *)

embedding_size == 512
DefaultThreshold == 55
ScrollLimit == 10000
ATTENDANCE_COOLDOWN == 30
FACE_MATCH_THRESHOLD == 55
FACE_DETECTION_INTERVAL == 5

collection_name == "faces"

----------------------------------------------------------------------------
(* Inputs *)

Emb(n, a, b) == [len |-> n, x |-> a, y |-> b]

\* 512-dimensional embeddings: three directions, of norm 5, 10 and 5;
\* cosines: E1.E2 = 0.60, E2.E3 = 0.80, E1.E3 = 0
E1 == Emb(512, 5, 0)
E2 == Emb(512, 6, 8)
E3 == Emb(512, 0, 5)
\* a face unlike every enrolled one: cosines -1 with E1, -0.60 with E2
EStranger == Emb(512, -5, 0)
GoodEmbeddings == {E1, E2, E3}
\* the embeddings enrolled; E3 is only ever a query
EnrollEmbeddings == {E1, E2}
\* embeddings of another size
BadEmbeddings == {Emb(511, 5, 0), Emb(513, 3, 4)}
Embeddings == GoodEmbeddings \cup BadEmbeddings
\* no embedding (a call that takes none)
NoEmb == Emb(0, 0, 0)

\* names in ascending (lexicographic) order
NameOrder == <<"alice", "bob">>
Names == {NameOrder[i] : i \in 1..Len(NameOrder)}
NameRank(n) == CHOOSE i \in 1..Len(NameOrder) : NameOrder[i] = n

Thresholds == {DefaultThreshold, 60}

----------------------------------------------------------------------------
(* Cosine similarity, as the store computes it for Distance.COSINE *)

Dot(u, v) == u.x * v.x + u.y * v.y

RECURSIVE ISqrtFrom(_, _)
ISqrtFrom(n, k) == IF (k + 1) * (k + 1) > n THEN k ELSE ISqrtFrom(n, k + 1)
Norm(u) == ISqrtFrom(Dot(u, u), 0)

\* cosine similarity in hundredths
Cosine(u, v) == (100 * Dot(u, v)) \div (Norm(u) * Norm(v))

----------------------------------------------------------------------------
(* The vector store (the Qdrant client's calls, as the wrapper uses them) *)

Point(id, vector, payload) == [id |-> id, vector |-> vector, payload |-> payload]

\* client.upsert(points=[point]): insert, or overwrite the record of the same id
Upsert(pts, point) == {p \in pts : p.id # point.id} \cup {point}

\* client.search(query_vector, limit=1, score_threshold): the records whose score
\* reaches the threshold and is the highest; the store returns one of them
SearchHits(pts, query, score_threshold) ==
    LET ok == {p \in pts : Cosine(query, p.vector) >= score_threshold}
    IN  {p \in ok : \A q \in ok : Cosine(query, q.vector) <= Cosine(query, p.vector)}

\* the identifier of the limit-th record in identifier order, looked for from k up
RECURSIVE PageEnd(_, _, _)
PageEnd(ids, limit, k) ==
    IF Cardinality({i \in ids : i <= k}) >= limit THEN k ELSE PageEnd(ids, limit, k + 1)

\* client.scroll(limit): the first page, the limit first records in identifier order
Scroll(pts, limit) ==
    IF Cardinality(pts) <= limit
    THEN pts
    ELSE LET ids == {p.id : p \in pts}
             first == CHOOSE m \in ids : \A j \in ids : m <= j
         IN  UNION {{p \in pts : p.id <= end} :
                       end \in {PageEnd(ids, limit, first + limit - 1)}}

\* client.delete(points_selector=Filter(must=[name == value]))
DeleteByName(pts, value) == {p \in pts : p.payload.name # value}

\* sorted(list(names))
RECURSIVE SortNames(_)
SortNames(S) ==
    IF S = {} THEN <<>>
    ELSE LET m == CHOOSE a \in S : \A b \in S : NameRank(a) <= NameRank(b)
         IN  <<m>> \o SortNames(S \ {m})

----------------------------------------------------------------------------
(* Outcomes of a call: what it returned or raised *)

NoOutcome ==
    [kind |-> "nocall", exc |-> "", name |-> "", score |-> 0, id |-> 0,
     people |-> <<>>, flag |-> FALSE, total_faces |-> 0, total_people |-> 0,
     message |-> ""]

Raise(e) == [NoOutcome EXCEPT !.kind = "raise", !.exc = e]
\* raise e(message)
RaiseWith(e, message) == [Raise(e) EXCEPT !.message = message]
RetNone == [NoOutcome EXCEPT !.kind = "None"]
RetMatch(n, s) == [NoOutcome EXCEPT !.kind = "match", !.name = n, !.score = s]
RetId(i) == [NoOutcome EXCEPT !.kind = "id", !.id = i]
RetList(l) == [NoOutcome EXCEPT !.kind = "list", !.people = l]
RetBool(b) == [NoOutcome EXCEPT !.kind = "bool", !.flag = b]
RetStats(f, l) ==
    [NoOutcome EXCEPT !.kind = "stats", !.total_faces = f, !.total_people = Len(l),
                      !.people = l]

\* what a wrapper call does: the store's records after it, its outcome, and the
\* client calls it issued
Done(pts, out, calls) == [points |-> pts, out |-> out, calls |-> calls]

----------------------------------------------------------------------------
(* FaceDB (qdrant_db.py).  pts: the stored records, up: the store is reachable *)

\* client.create_collection(collection_name, VectorParams(size, distance)), for a
\* name no collection has
CreateCollection(cols, name, size, distance) ==
    cols \cup {[name |-> name, size |-> size, distance |-> distance]}

\* FaceDB._setup_collection, the store being reachable: create "faces" if absent.
\* The collections afterwards and the client calls made
SetupCollectionAlways(cols) ==
    [collections |-> CreateCollection({c \in cols : c.name # collection_name},
                                      collection_name, embedding_size, "Cosine"),
     calls |-> <<"get_collections", "recreate_collection">>]
_setup_collection(cols) ==
    IF collection_name \notin {c.name : c \in cols}
    THEN [collections |-> CreateCollection(cols, collection_name, embedding_size,
                                           "Cosine"),
          calls |-> <<"get_collections", "create_collection">>]
    ELSE [collections |-> cols, calls |-> <<"get_collections">>]

\* the records of "faces" after the client calls of a set-up: a collection just
\* created holds none
RecordsAfterSetup(pts, calls) ==
    IF \E i \in 1..Len(calls) : calls[i] \in {"create_collection", "recreate_collection"}
    THEN {}
    ELSE pts

AddFaceNoCheck(pts, up, id, name, embedding) ==
    IF up THEN Done(Upsert(pts, Point(id, embedding, [name |-> name])), RetId(id), <<"upsert">>)
    ELSE Done(pts, Raise("ConnectionError"), <<"upsert">>)
AddFaceWrongVector(pts, up, id, name, embedding) ==
    IF embedding.len # embedding_size THEN Done(pts, Raise("ValueError"), <<>>)
    ELSE IF up
    THEN Done(Upsert(pts, Point(id, Emb(embedding.len, embedding.y, embedding.x),
                                [name |-> name])), RetId(id), <<"upsert">>)
    ELSE Done(pts, Raise("ConnectionError"), <<"upsert">>)
AddFaceLessCheck(pts, up, id, name, embedding) ==
    IF embedding.len < embedding_size THEN Done(pts, Raise("ValueError"), <<>>)
    ELSE IF up
    THEN Done(Upsert(pts, Point(id, embedding, [name |-> name])), RetId(id), <<"upsert">>)
    ELSE Done(pts, Raise("ConnectionError"), <<"upsert">>)
AddFaceKeyedByName(pts, up, id, name, embedding) ==
    IF embedding.len # embedding_size THEN Done(pts, Raise("ValueError"), <<>>)
    ELSE IF up
    THEN Done(Upsert(pts, Point(NameRank(name), embedding, [name |-> name])),
              RetId(NameRank(name)), <<"upsert">>)
    ELSE Done(pts, Raise("ConnectionError"), <<"upsert">>)
add_face(pts, up, id, name, embedding) ==
    IF embedding.len # embedding_size
    THEN Done(pts, Raise("ValueError"), <<>>)
    ELSE IF up
    THEN Done(Upsert(pts, Point(id, embedding, [name |-> name])), RetId(id), <<"upsert">>)
    ELSE Done(pts, Raise("ConnectionError"), <<"upsert">>)

\* the outcomes search_face can have (the store picks among records of equal score)
SearchFaceStrict(pts, up, embedding, threshold) ==
    IF embedding.len # embedding_size THEN {Done(pts, Raise("ValueError"), <<>>)}
    ELSE IF ~up THEN {Done(pts, RetNone, <<"search">>)}
    ELSE LET hits == {p \in SearchHits(pts, embedding, threshold) :
                        Cosine(embedding, p.vector) > threshold}
         IN  IF hits = {} THEN {Done(pts, RetNone, <<"search">>)}
             ELSE {Done(pts, RetMatch(p.payload.name, Cosine(embedding, p.vector)),
                        <<"search">>) : p \in hits}
search_face(pts, up, embedding, threshold) ==
    IF embedding.len # embedding_size
    THEN {Done(pts, Raise("ValueError"), <<>>)}
    ELSE IF ~up
    THEN {Done(pts, RetNone, <<"search">>)}
    ELSE LET results == SearchHits(pts, embedding, threshold)
         IN  IF results # {}
             THEN {Done(pts, RetMatch(p.payload.name, Cosine(embedding, p.vector)),
                        <<"search">>) : p \in results}
             ELSE {Done(pts, RetNone, <<"search">>)}

ListPeopleReraise(pts, up) ==
    IF ~up THEN Done(pts, Raise("ConnectionError"), <<"scroll">>)
    ELSE Done(pts, RetList(SortNames({p.payload.name : p \in Scroll(pts, ScrollLimit)})),
              <<"scroll">>)
list_people(pts, up) ==
    IF ~up
    THEN Done(pts, RetList(<<>>), <<"scroll">>)
    ELSE Done(pts, RetList(SortNames({p.payload.name : p \in Scroll(pts, ScrollLimit)})),
              <<"scroll">>)

DeletePersonOne(pts, up, name) ==
    IF ~up THEN Done(pts, RetBool(FALSE), <<"delete">>)
    ELSE LET hit == {p \in pts : p.payload.name = name}
         IN  IF hit = {} THEN Done(pts, RetBool(TRUE), <<"delete">>)
             ELSE Done(pts \ {CHOOSE p \in hit : TRUE}, RetBool(TRUE), <<"delete">>)
delete_person(pts, up, name) ==
    IF ~up
    THEN Done(pts, RetBool(FALSE), <<"delete">>)
    ELSE Done(DeleteByName(pts, name), RetBool(TRUE), <<"delete">>)

GetStatsResetting(pts, up) ==
    IF ~up
    THEN Done(pts, RetStats(0, <<>>), <<"get_collection">>)
    ELSE Done({}, RetStats(Cardinality(pts), list_people(pts, up).out.people),
              <<"recreate_collection", "scroll">>)
get_stats(pts, up) ==
    IF ~up
    THEN Done(pts, RetStats(0, <<>>), <<"get_collection">>)
    ELSE Done(pts, RetStats(Cardinality(pts), list_people(pts, up).out.people),
              <<"get_collection", "scroll">>)

----------------------------------------------------------------------------
(* The wrapper called directly, as the scripts do (add_faces.py, webcam2.py) *)

Call(op, name, emb, thr, up, d) ==
    [op |-> op, name |-> name, emb |-> emb, thrGiven |-> TRUE, thr |-> thr, up |-> up,
     out |-> d.out, calls |-> d.calls]
NoCall == Call("", "", NoEmb, 0, TRUE, Done({}, NoOutcome, <<>>))

NoData ==
    [present |-> FALSE, name |-> "", personnelId |-> "", image |-> "",
     thresholdGiven |-> FALSE, threshold |-> 0]
NoJson ==
    [success |-> "", error |-> "", found |-> "", name |-> "", personnelId |-> "",
     score |-> 0, threshold |-> 0, faces |-> <<>>, count |-> 0, faces_detected |-> 0]
Response(route, data, status, json) ==
    [route |-> route, data |-> data, status |-> status, json |-> json]
NoResp == Response("", NoData, 0, NoJson)

\* FaceDB(...): connect and set the collection up; an unreachable store makes
\* get_collections raise, the constructor raises and the script exits
Construct ==
    /\ before' = points
    /\ resp' = NoResp
    /\ IF reachable
       THEN LET setup == _setup_collection(collections)
            IN  /\ collections' = setup.collections
                /\ points' = RecordsAfterSetup(points, setup.calls)
                /\ db' = TRUE
                /\ last' = Call("__init__", "", NoEmb, 0, TRUE,
                                Done(points', RetNone, setup.calls))
       ELSE /\ UNCHANGED <<collections, points, db>>
            /\ last' = Call("__init__", "", NoEmb, 0, FALSE,
                            Done(points, Raise("ConnectionError"), <<"get_collections">>))
    /\ UNCHANGED <<reachable, nextId, serverUp, face_app, facedb>>

\* the effect of one wrapper call d made as op(name, emb, thr)
Apply(op, name, emb, thr, d) ==
    /\ before' = points
    /\ points' = d.points
    /\ last' = Call(op, name, emb, thr, reachable, d)

AddFace(name, emb) ==
    /\ db
    /\ nextId < MaxAdds
    /\ LET d == add_face(points, reachable, nextId + 1, name, emb)
       IN  /\ Apply("add_face", name, emb, 0, d)
           /\ nextId' = IF d.out.kind = "id" THEN nextId + 1 ELSE nextId
    /\ resp' = NoResp
    /\ UNCHANGED <<collections, reachable, db, serverUp, face_app, facedb>>

\* search_face(embedding, threshold=thr), or search_face(embedding) when ~given
SearchFace(emb, given, thr) ==
    /\ db
    /\ LET threshold == IF given THEN thr ELSE DefaultThreshold
       IN  \E d \in search_face(points, reachable, emb, threshold) :
              /\ before' = points
              /\ points' = d.points
              /\ last' = [Call("search_face", "", emb, threshold, reachable, d)
                            EXCEPT !.thrGiven = given]
    /\ resp' = NoResp
    /\ UNCHANGED <<collections, reachable, nextId, db, serverUp, face_app, facedb>>

ListPeople ==
    /\ db
    /\ Apply("list_people", "", NoEmb, 0, list_people(points, reachable))
    /\ resp' = NoResp
    /\ UNCHANGED <<collections, reachable, nextId, db, serverUp, face_app, facedb>>

DeletePerson(name) ==
    /\ db
    /\ Apply("delete_person", name, NoEmb, 0, delete_person(points, reachable, name))
    /\ resp' = NoResp
    /\ UNCHANGED <<collections, reachable, nextId, db, serverUp, face_app, facedb>>

GetStats ==
    /\ db
    /\ Apply("get_stats", "", NoEmb, 0, get_stats(points, reachable))
    /\ resp' = NoResp
    /\ UNCHANGED <<collections, reachable, nextId, db, serverUp, face_app, facedb>>

\* the environment: the store goes away and comes back
StoreDown ==
    /\ reachable
    /\ reachable' = FALSE
    /\ UNCHANGED <<collections, points, nextId, db, serverUp, face_app, facedb,
                   before, last, resp>>

StoreUp ==
    /\ ~reachable
    /\ reachable' = TRUE
    /\ UNCHANGED <<collections, points, nextId, db, serverUp, face_app, facedb,
                   before, last, resp>>

----------------------------------------------------------------------------
(* The server's functions (server/functions.py) *)

Absent == "<absent>"
\* `not v` for a field of the body: absent (None) or the empty string
FalsyOnlyEmpty(v) == v = ""
Falsy(v) == v \in {Absent, ""}

\* request images: base64 text that does not decode, and pictures with 0, 1, 2 faces
Images == {"garbage", "img_none", "img_e1", "img_e2_e3"}
FacesOf(img) ==
    CASE img = "img_e1" -> <<E1>>
      [] img = "img_e2_e3" -> <<E2, E3>>
      [] OTHER -> <<>>

\* base64_to_cv2_image: "ValueError" when the text does not decode
base64_to_cv2_image(base64_string) ==
    IF base64_string = "garbage"
    THEN RaiseWith("ValueError", "Invalid image data")
    ELSE RetNone

\* get_face_embedding: the first face's embedding, or a ValueError
GetFaceEmbeddingOneFace(app, img) ==
    IF app = "None"
    THEN RaiseWith("ValueError", "Face analysis model not initialized")
    ELSE IF Len(FacesOf(img)) # 1
    THEN RaiseWith("ValueError", "No faces detected in the image")
    ELSE RetNone
get_face_embedding(app, img) ==
    IF app = "None"
    THEN RaiseWith("ValueError", "Face analysis model not initialized")
    ELSE IF Len(FacesOf(img)) < 1
    THEN RaiseWith("ValueError", "No faces detected in the image")
    ELSE RetNone

\* the methods FaceDB defines; any other attribute raises AttributeError
FaceDBMethods ==
    {"add_face", "search_face", "list_people", "delete_person", "get_stats"}

\* facedb.<method>(...): the outcomes of the call
Invoke(method, pts, up, id, name, emb, thr) ==
    CASE method \notin FaceDBMethods -> {Done(pts, Raise("AttributeError"), <<>>)}
      [] method = "add_face" -> {add_face(pts, up, id, name, emb)}
      [] method = "search_face" -> search_face(pts, up, emb, thr)
      [] method = "list_people" -> {list_people(pts, up)}
      [] method = "delete_person" -> {delete_person(pts, up, name)}
      [] method = "get_stats" -> {get_stats(pts, up)}

\* a call one of the server's functions makes on facedb: the method and its outcomes
Via(method, name, emb, thr, ds) ==
    [method |-> method, name |-> name, emb |-> emb, thr |-> thr, ds |-> ds]
Fails(pts, e) == Via("", "", NoEmb, 0, {Done(pts, Raise(e), <<>>)})

\* the parameters add_face_to_database declares
AddFaceToDatabaseParams == {"name", "embedding"}

\* add_face_to_database called with the keyword arguments kwargs
add_face_to_database(fdb, pts, up, id, name, emb, kwargs) ==
    IF ~(kwargs \subseteq AddFaceToDatabaseParams)
    THEN Fails(pts, "TypeError")
    ELSE IF fdb = "None"
    THEN Fails(pts, "ValueError")
    ELSE Via("add_face", name, emb, 0, Invoke("add_face", pts, up, id, name, emb, 0))

SearchInDatabaseNoThreshold(fdb, pts, up, emb, thr) ==
    IF fdb = "None"
    THEN Fails(pts, "ValueError")
    ELSE Via("search_face", "", emb, DefaultThreshold,
             Invoke("search_face", pts, up, 0, "", emb, DefaultThreshold))
search_face_in_database(fdb, pts, up, emb, thr) ==
    IF fdb = "None"
    THEN Fails(pts, "ValueError")
    ELSE Via("search_face", "", emb, thr, Invoke("search_face", pts, up, 0, "", emb, thr))

list_all_faces(fdb, pts, up) ==
    IF fdb = "None"
    THEN Fails(pts, "ValueError")
    ELSE Via("list_all_faces", "", NoEmb, 0,
             Invoke("list_all_faces", pts, up, 0, "", NoEmb, 0))

delete_face_from_database(fdb, pts, up, name) ==
    IF fdb = "None"
    THEN Fails(pts, "ValueError")
    ELSE Via("delete_face", name, NoEmb, 0,
             Invoke("delete_face", pts, up, 0, name, NoEmb, 0))

is_database_connected(fdb) == fdb # "None"
is_face_model_loaded(app) == app # "None"

----------------------------------------------------------------------------
(* The routes (server/routes.py).  A reply: the HTTP status, the JSON body, the   *)
(* FaceDB method the handler called ("" when none) and what that call did.        *)

Reply(status, json, via, d) ==
    [status |-> status, json |-> json, method |-> via.method, name |-> via.name,
     emb |-> via.emb, thr |-> via.thr, d |-> d]
Error(pts, status, message) ==
    Reply(status, [NoJson EXCEPT !.error = message], Fails(pts, ""),
          Done(pts, NoOutcome, <<>>))

\* request.get_json() of a POST/DELETE body: a JSON object, or nothing (None or {})
Data(name, personnelId, image, thresholdGiven, threshold) ==
    [present |-> TRUE, name |-> name, personnelId |-> personnelId, image |-> image,
     thresholdGiven |-> thresholdGiven, threshold |-> threshold]

\* POST /add_face
add_face_route(fdb, app, pts, up, id, data) ==
    IF ~is_database_connected(fdb)
    THEN {Error(pts, 500, "Qdrant database not connected")}
    ELSE IF ~data.present
    THEN {Error(pts, 400, "No JSON data provided")}
    ELSE IF Falsy(data.name)
    THEN {Error(pts, 400, "Name is required")}
    ELSE IF Falsy(data.personnelId)
    THEN {Error(pts, 400, "personnelId is required")}
    ELSE IF Falsy(data.image)
    THEN {Error(pts, 400, "Image data is required")}
    ELSE IF base64_to_cv2_image(data.image).kind = "raise"
    THEN {Error(pts, 400, base64_to_cv2_image(data.image).message)}
    ELSE IF get_face_embedding(app, data.image).kind = "raise"
    THEN {Error(pts, 400, get_face_embedding(app, data.image).message)}
    ELSE LET faces == FacesOf(data.image)
             via == add_face_to_database(fdb, pts, up, id, data.name, faces[1],
                                         {"name", "embedding", "personnel_id"})
         IN  {IF d.out.kind = "raise"
              THEN Reply(500, [NoJson EXCEPT !.error = "Internal server error"],
                         via, d)
              ELSE Reply(200, [NoJson EXCEPT !.success = "true", !.name = data.name,
                                             !.personnelId = data.personnelId,
                                             !.faces_detected = Len(faces)],
                         via, d) : d \in via.ds}

\* POST /search_face
search_face_route(fdb, app, pts, up, data) ==
    IF ~is_database_connected(fdb)
    THEN {Error(pts, 500, "Qdrant database not connected")}
    ELSE IF ~data.present
    THEN {Error(pts, 400, "No JSON data provided")}
    ELSE IF Falsy(data.image)
    THEN {Error(pts, 400, "Image data is required")}
    ELSE IF base64_to_cv2_image(data.image).kind = "raise"
    THEN {Error(pts, 400, base64_to_cv2_image(data.image).message)}
    ELSE IF get_face_embedding(app, data.image).kind = "raise"
    THEN {Error(pts, 400, get_face_embedding(app, data.image).message)}
    ELSE LET faces == FacesOf(data.image)
             threshold == IF data.thresholdGiven THEN data.threshold ELSE DefaultThreshold
             via == search_face_in_database(fdb, pts, up, faces[1], threshold)
         IN  {IF d.out.kind = "raise"
              THEN Reply(500, [NoJson EXCEPT !.error = "Internal server error"],
                         via, d)
              ELSE IF d.out.kind = "match"
              THEN Reply(200, [NoJson EXCEPT !.success = "true", !.found = "true",
                                             !.name = d.out.name, !.score = d.out.score,
                                             !.threshold = threshold],
                         via, d)
              ELSE Reply(200, [NoJson EXCEPT !.success = "true", !.found = "false",
                                             !.threshold = threshold],
                         via, d) : d \in via.ds}

\* GET /list_faces
list_faces_route(fdb, pts, up) ==
    IF ~is_database_connected(fdb)
    THEN {Error(pts, 500, "Qdrant database not connected")}
    ELSE LET via == list_all_faces(fdb, pts, up)
         IN  {IF d.out.kind = "raise"
              THEN Reply(500, [NoJson EXCEPT !.error = "Internal server error"],
                         via, d)
              ELSE Reply(200, [NoJson EXCEPT !.success = "true", !.faces = d.out.people,
                                             !.count = Len(d.out.people)],
                         via, d) : d \in via.ds}

\* DELETE /delete_face
delete_face_route(fdb, pts, up, data) ==
    IF ~is_database_connected(fdb)
    THEN {Error(pts, 500, "Qdrant database not connected")}
    ELSE IF ~data.present
    THEN {Error(pts, 400, "No JSON data provided")}
    ELSE IF Falsy(data.name)
    THEN {Error(pts, 400, "Name is required")}
    ELSE LET via == delete_face_from_database(fdb, pts, up, data.name)
         IN  {IF d.out.kind = "raise"
              THEN Reply(500, [NoJson EXCEPT !.error = "Internal server error"],
                         via, d)
              ELSE IF d.out.flag
              THEN Reply(200, [NoJson EXCEPT !.success = "true"], via, d)
              ELSE Reply(404, [NoJson EXCEPT !.success = "false"], via, d)
              : d \in via.ds}

----------------------------------------------------------------------------
(* The server: start-up (server/app.py) and one action per request *)

\* create_app(): load the model, connect to the store.  Either can fail; the
\* server starts all the same, with the global left None.
StartServer ==
    /\ ~serverUp
    /\ serverUp' = TRUE
    /\ face_app' \in {"FaceAnalysis", "None"}
    /\ \/ /\ reachable
          /\ facedb' = "FaceDB"
          /\ LET setup == _setup_collection(collections)
             IN  /\ collections' = setup.collections
                 /\ points' = RecordsAfterSetup(points, setup.calls)
       \/ /\ facedb' = "None"
          /\ UNCHANGED <<collections, points>>
    /\ before' = points
    /\ last' = NoCall
    /\ resp' = NoResp
    /\ UNCHANGED <<reachable, nextId, db>>

\* a request handled: the store after it, the wrapper call made, the response
Handle(route, data, replies) ==
    /\ serverUp
    /\ \E r \in replies :
          /\ before' = points
          /\ points' = r.d.points
          /\ last' = IF r.method = "" THEN NoCall
                     ELSE Call(r.method, r.name, r.emb, r.thr, reachable, r.d)
          /\ resp' = Response(route, data, r.status, r.json)
          /\ nextId' = IF r.method = "add_face" /\ r.d.out.kind = "id"
                       THEN nextId + 1 ELSE nextId
    /\ UNCHANGED <<collections, reachable, db, serverUp, face_app, facedb>>

NameInputs == {"alice", Absent, ""}
\* what the enrollment script adds while the server runs
Enrollments == {<<"alice", E1>>, <<"bob", E2>>}
PersonnelIds == {"P1", Absent}
ImageInputs == Images \cup {Absent}

HttpHealth ==
    /\ serverUp
    /\ before' = points
    /\ last' = NoCall
    /\ resp' = Response("/health", NoData, 200,
                        [NoJson EXCEPT !.success = "healthy",
                                       !.found = IF is_database_connected(facedb)
                                                 THEN "true" ELSE "false"])
    /\ UNCHANGED <<collections, points, reachable, nextId, db, serverUp, face_app, facedb>>

HttpAddFace(data) ==
    /\ nextId < MaxAdds
    /\ Handle("/add_face", data,
              add_face_route(facedb, face_app, points, reachable, nextId + 1, data))

HttpSearchFace(data) ==
    Handle("/search_face", data,
           search_face_route(facedb, face_app, points, reachable, data))

HttpListFaces ==
    Handle("/list_faces", NoData, list_faces_route(facedb, points, reachable))

HttpDeleteFace(data) ==
    Handle("/delete_face", data, delete_face_route(facedb, points, reachable, data))

----------------------------------------------------------------------------
(* The attendance loop (webcam_attendance.py) *)

People == Names

\* what a frame shows: no face, or one face with this embedding
Frames == {NoEmb, E1, E2, EStranger}

\* how the attendance webhook answers: not with 200 (or a timeout, or an exception),
\* or 200 with a JSON object: {}, {success: false, ...}, {success: true, ...}
ApiAnswers == {"error", "200 {}", "200 success=false", "200 success=true"}

Keys == {"", "q", "s", "r"}

\* mark_attendance_api: the parsed JSON object of a 200 answer, None otherwise
mark_attendance_api(answer) ==
    IF answer = "error" THEN "None"
    ELSE IF answer = "200 success=true" THEN "{success: true}"
    ELSE IF answer = "200 success=false" THEN "{success: false}"
    ELSE "{}"

\* only the empty object is false
TruthyButEmpty(result) == result # "{}"
\* Python's truth value of what mark_attendance_api returned
Truthy(result) == result \notin {"None", "{}"}

ShouldMarkStrict(tracker, current_time, person_id) ==
    IF person_id \notin DOMAIN tracker THEN TRUE
    ELSE current_time - tracker[person_id] > ATTENDANCE_COOLDOWN
should_mark_attendance(tracker, current_time, person_id) ==
    IF person_id \notin DOMAIN tracker
    THEN TRUE
    ELSE current_time - tracker[person_id] >= ATTENDANCE_COOLDOWN

\* a dict with key k set to v
Put(dict, k, v) == [q \in DOMAIN dict \cup {k} |-> IF q = k THEN v ELSE dict[q]]

update_attendance_tracker(tracker, current_time, person_id) ==
    Put(tracker, person_id, current_time)

\* the keys of the dict search_face returns for a match
MatchKeys == {"name", "score"}

\* match.get('personnelId', name)
PersonId(match) == IF "personnelId" \in MatchKeys THEN match.personnelId ELSE match.name

\* history record of one iteration.  failed: the read failed; countBefore,
\* was_marked: frame_count and attendance_marked when it began; processed: detection
\* ran; searched: search_face was called; called: the attendance API was called;
\* answer: what the webhook did with the call; marked: attendance was marked in it;
\* cap_calls: what it did to the capture
NoIter ==
    [ret |-> FALSE, failed |-> FALSE, countBefore |-> 0, was_marked |-> FALSE,
     frame_count |-> 0, processed |-> FALSE, searched |-> FALSE, match |-> "",
     person_id |-> "", called |-> FALSE, answer |-> "", result |-> "",
     marked |-> FALSE,
     key |-> "", status_text |-> "", cap_calls |-> <<>>,
     at |-> 0, prevCall |-> {}, prevAnswered |-> {}, prevFailed |-> FALSE]

Scripts == {"webcam.py", "webcam2.py", "webcam_attendance.py"}

\* `if not ret:` in the script s: whether the loop goes on, the capture afterwards
\* and the calls made on it
OnFailedReadBreak(s) ==
    [running |-> FALSE, cap |-> "released", cap_calls |-> <<"release">>]
OnFailedRead(s) ==
    IF s = "webcam.py"
    THEN \* break, then cap.release() after the loop
         [running |-> FALSE, cap |-> "released", cap_calls |-> <<"release">>]
    ELSE \* release, sleep 2 s, reopen, continue
         [running |-> TRUE, cap |-> "open",
          cap_calls |-> <<"release", "sleep", "VideoCapture", "set">>]

\* the face detection and attendance part of one iteration (lines 210-257), for a
\* frame and one outcome m of search_face: the iteration record and the state after
Recognise(it, frame, m, answer, delay) ==
    IF frame = NoEmb \/ m.kind # "match"
    THEN [it |-> [it EXCEPT !.processed = TRUE, !.searched = (frame # NoEmb)],
          tracker |-> attendance_tracker,
          marked |-> attendance_marked, time |-> now]
    ELSE LET person_id == PersonId(m)
             it1 == [it EXCEPT
                       !.processed = TRUE, !.searched = TRUE,
                       !.match = m.name, !.person_id = person_id,
                       !.at = now,
                       !.prevCall = IF person_id \in DOMAIN callAt
                                    THEN {callAt[person_id]} ELSE {},
                       !.prevAnswered = IF person_id \in DOMAIN answeredAt
                                        THEN {answeredAt[person_id]} ELSE {},
                       !.prevFailed = person_id \in callFailed]
         IN  IF ~should_mark_attendance(attendance_tracker, now, person_id)
             THEN [it |-> it1, tracker |-> attendance_tracker,
                   marked |-> attendance_marked, time |-> now]
             ELSE LET result == mark_attendance_api(answer)
                      t == now + delay
                      it2 == [it1 EXCEPT !.called = TRUE, !.answer = answer,
                                         !.result = result]
                  IN  IF Truthy(result)
                      THEN [it |-> [it2 EXCEPT !.marked = TRUE],
                            tracker |-> update_attendance_tracker(attendance_tracker, t,
                                                                  person_id),
                            marked |-> TRUE, time |-> t]
                      ELSE [it |-> it2, tracker |-> attendance_tracker,
                            marked |-> attendance_marked, time |-> t]

\* cap.read(): ret is what the stream gives
ReadGives(ret) == (camera = "up" => ret) /\ (camera = "down" => ~ret)

\* cv2.waitKey(1) & 0xFF at the end of an iteration whose read succeeded: a key that
\* waits in the event queue is the one returned
WaitKeyGives(ret, key) == (ret /\ pressed # "") => key = pressed

\* should_process_face, for the count of the frame just read
ShouldProcessNext(count) == (count + 1) % FACE_DETECTION_INTERVAL = 0
ShouldProcessFace(count) == count % FACE_DETECTION_INTERVAL = 0

\* line 210: detection runs on the frame of this count
DetectsWhilePaused(count, marked) == ShouldProcessFace(count)
Detects(count, marked) ==
    ShouldProcessFace(count) /\ ~(stop_after_detection /\ marked)

\* the frame about to be read will go through detection
WillProcess == Detects(frame_count + 1, attendance_marked)

\* one iteration of `while True` (lines 193-288)
Iterate(ret, frame, answer, delay, key) ==
    /\ running
    /\ script = "webcam_attendance.py"
    \* inputs the iteration does not consume are left at their first value
    /\ ~ret => frame = NoEmb /\ key = ""
    /\ ReadGives(ret)
    /\ WaitKeyGives(ret, key)
    /\ pressed' = IF ret THEN "" ELSE pressed
    /\ ~(ret /\ WillProcess) => answer = "error" /\ delay = 0
    /\ IF ~ret
       THEN /\ iter' = [NoIter EXCEPT !.failed = TRUE, !.countBefore = frame_count,
                                      !.frame_count = frame_count,
                                      !.was_marked = attendance_marked,
                                      !.cap_calls = OnFailedRead(script).cap_calls]
            /\ cap' = OnFailedRead(script).cap
            /\ running' = OnFailedRead(script).running
            /\ UNCHANGED <<frame_count, attendance_marked, attendance_tracker,
                           now, callAt, answeredAt, callFailed>>
       ELSE /\ frame_count < MaxFrames
            /\ now + delay <= MaxTime
            /\ frame_count' = frame_count + 1
            /\ LET it0 == [NoIter EXCEPT !.ret = TRUE, !.countBefore = frame_count,
                                         !.frame_count = frame_count + 1,
                                         !.was_marked = attendance_marked,
                                         !.key = key,
                                         !.cap_calls = IF key = "q" THEN <<"release">>
                                                       ELSE <<>>]
                   detect == Detects(frame_count + 1, attendance_marked)
               IN  \E m \in IF detect /\ frame # NoEmb
                             THEN {d.out : d \in search_face(points, reachable, frame,
                                                             FACE_MATCH_THRESHOLD)}
                             ELSE {NoOutcome} :
                      LET r == IF detect
                               THEN Recognise(it0, frame, m, answer, delay)
                               ELSE [it |-> it0, tracker |-> attendance_tracker,
                                     marked |-> attendance_marked, time |-> now]
                          status_text == IF stop_after_detection /\ r.marked
                                         THEN "PAUSED" ELSE "ACTIVE"
                          called == r.it.called
                          answered == called /\ r.it.result \notin {"None", "{}"}
                      IN  /\ ~called => answer = "error" /\ delay = 0
                          /\ iter' = [r.it EXCEPT !.status_text = status_text]
                          /\ now' = r.time
                          /\ callAt' = IF called THEN Put(callAt, r.it.person_id, r.time)
                                       ELSE callAt
                          /\ callFailed' =
                                IF ~called THEN callFailed
                                ELSE IF answer = "error"
                                THEN callFailed \cup {r.it.person_id}
                                ELSE callFailed \ {r.it.person_id}
                          /\ running' = (key # "q")
                          /\ cap' = IF key = "q" THEN "released" ELSE cap
                          /\ attendance_tracker' = IF key = "r" THEN <<>> ELSE r.tracker
                          /\ attendance_marked' = IF key = "r" THEN FALSE ELSE r.marked
                          /\ answeredAt' =
                                IF key = "r" THEN <<>>
                                ELSE IF answered THEN Put(answeredAt, r.it.person_id, r.time)
                                ELSE answeredAt
    /\ UNCHANGED <<script, stop_after_detection, camera>>
    /\ UNCHANGED dbvars

\* the clock
Tick ==
    /\ running
    /\ now + TickStep <= MaxTime
    /\ now' = now + TickStep
    /\ script = "webcam_attendance.py"
    /\ UNCHANGED <<script, running, cap, frame_count, attendance_marked,
                   attendance_tracker, stop_after_detection, iter, callAt, answeredAt,
                   callFailed, camera, pressed>>
    /\ UNCHANGED dbvars

----------------------------------------------------------------------------
(* The RTSP loop without attendance (webcam2.py) *)

face_detection_interval == 5

\* line 89
should_process_face(count) == count % face_detection_interval = 0

\* one iteration of `while True` (webcam2.py lines 75-135)
Webcam2Iterate(ret, frame, key) ==
    /\ running
    /\ script = "webcam2.py"
    /\ ~ret => frame = NoEmb /\ key = ""
    /\ ReadGives(ret)
    /\ WaitKeyGives(ret, key)
    /\ pressed' = IF ret THEN "" ELSE pressed
    /\ (ret /\ ~should_process_face(frame_count + 1)) => frame = NoEmb
    /\ IF ~ret
       THEN /\ iter' = [NoIter EXCEPT !.failed = TRUE, !.countBefore = frame_count,
                                      !.frame_count = frame_count,
                                      !.cap_calls = OnFailedRead(script).cap_calls]
            /\ cap' = OnFailedRead(script).cap
            /\ running' = OnFailedRead(script).running
            /\ UNCHANGED frame_count
       ELSE /\ frame_count < MaxFrames
            /\ frame_count' = frame_count + 1
            /\ LET detect == should_process_face(frame_count + 1)
                   it0 == [NoIter EXCEPT !.ret = TRUE, !.countBefore = frame_count,
                                         !.frame_count = frame_count + 1,
                                         !.key = key,
                                         !.cap_calls = IF key = "q" THEN <<"release">>
                                                       ELSE <<>>]
               IN  \E m \in IF detect /\ frame # NoEmb
                             THEN {d.out : d \in search_face(points, reachable, frame, 55)}
                             ELSE {NoOutcome} :
                      iter' = [it0 EXCEPT
                                 !.processed = detect,
                                 !.searched = detect /\ frame # NoEmb,
                                 !.match = IF m.kind = "match" THEN m.name ELSE ""]
            /\ running' = (key # "q")
            /\ cap' = IF key = "q" THEN "released" ELSE cap
    /\ UNCHANGED <<script, attendance_marked, attendance_tracker, stop_after_detection,
                   now, callAt, answeredAt, callFailed, camera>>
    /\ UNCHANGED dbvars

----------------------------------------------------------------------------
(* The local webcam loop over the pickled embeddings (webcam.py) *)

\* load_embeddings(): the dict of face_database.pkl, in insertion order
PickleDb ==
    <<[name |-> "alice", embeddings |-> <<E1>>],
      [name |-> "bob", embeddings |-> <<E3, E2>>]>>

compare_faces(emb1, emb2, threshold) ==
    [similarity |-> Cosine(emb1, emb2), is_same |-> Cosine(emb1, emb2) > threshold]

\* lines 66-77: the first name of the dict one of whose embeddings is the same person
WebcamFind(embedding) ==
    LET hits == {i \in 1..Len(PickleDb) :
                   \E j \in 1..Len(PickleDb[i].embeddings) :
                      compare_faces(PickleDb[i].embeddings[j], embedding,
                                    DefaultThreshold).is_same}
    IN  IF hits = {} THEN ""
        ELSE PickleDb[CHOOSE i \in hits : \A k \in hits : i <= k].name

\* one iteration of `while True` (webcam.py lines 56-89)
WebcamIterate(ret, frame, key) ==
    /\ running
    /\ script = "webcam.py"
    /\ ~ret => frame = NoEmb /\ key = ""
    /\ ReadGives(ret)
    /\ WaitKeyGives(ret, key)
    /\ pressed' = IF ret THEN "" ELSE pressed
    /\ IF ~ret
       THEN /\ iter' = [NoIter EXCEPT !.failed = TRUE,
                                      !.cap_calls = OnFailedRead(script).cap_calls]
            /\ cap' = OnFailedRead(script).cap
            /\ running' = OnFailedRead(script).running
       ELSE /\ iter' = [NoIter EXCEPT
                          !.ret = TRUE, !.key = key, !.processed = TRUE,
                          !.match = IF frame = NoEmb THEN "" ELSE WebcamFind(frame),
                          !.cap_calls = IF key = "q" THEN <<"release">> ELSE <<>>]
            /\ running' = (key # "q")
            /\ cap' = IF key = "q" THEN "released" ELSE cap
    /\ UNCHANGED <<script, frame_count, attendance_marked, attendance_tracker,
                   stop_after_detection, now, callAt, answeredAt, callFailed, camera>>
    /\ UNCHANGED dbvars

----------------------------------------------------------------------------
(* The three loops *)

\* a script started over a store with two people enrolled, one of them with a
\* personnel id in the payload: the capture is open, STOP_AFTER_DETECTION is
\* whatever webcam_attendance.py was configured with
LoopStart ==
    /\ script \in Scripts
    /\ script # "webcam_attendance.py" => stop_after_detection = FALSE
    /\ collections = _setup_collection({}).collections
    /\ points = {Point(1, E1, [name |-> "alice", personnelId |-> "P1"]),
                 Point(2, E2, [name |-> "bob"])}
    /\ reachable = TRUE
    /\ nextId = 2
    /\ db = TRUE
    /\ serverUp = FALSE
    /\ face_app = "None"
    /\ facedb = "None"
    /\ before = points
    /\ last = NoCall
    /\ resp = NoResp
    /\ running = TRUE
    /\ cap = "open"
    /\ frame_count = 0
    /\ attendance_marked = FALSE
    /\ attendance_tracker = <<>>
    /\ stop_after_detection \in BOOLEAN
    /\ now = 0
    /\ iter = NoIter
    /\ callAt = <<>>
    /\ answeredAt = <<>>
    /\ callFailed = {}
    /\ pressed = ""

LoopInit ==
    /\ LoopStart
    /\ camera = "?"

LoopNext ==
    \/ Iterate(FALSE, NoEmb, "error", 0, "")
    \/ /\ ~WillProcess
       /\ \E key \in Keys : Iterate(TRUE, NoEmb, "error", 0, key)
    \/ /\ WillProcess
       /\ \E frame \in Frames, answer \in ApiAnswers, delay \in {0, TickStep}, key \in Keys :
             Iterate(TRUE, frame, answer, delay, key)
    \/ Tick
    \/ Webcam2Iterate(FALSE, NoEmb, "")
    \/ \E frame \in Frames, key \in Keys \ {"r"} : Webcam2Iterate(TRUE, frame, key)
    \/ WebcamIterate(FALSE, NoEmb, "")
    \/ \E frame \in Frames, key \in {"", "q"} : WebcamIterate(TRUE, frame, key)

LoopSpec == LoopInit /\ [][LoopNext]_vars

----------------------------------------------------------------------------
(* The loops with the stream and the keyboard as parts of the state *)

\* the user presses 'q' while the loop is somewhere in an iteration: the key waits
\* for the next cv2.waitKey
PressQ ==
    /\ running
    /\ pressed = ""
    /\ frame_count < MaxFrames
    /\ pressed' = "q"
    /\ UNCHANGED <<script, running, cap, frame_count, attendance_marked,
                   attendance_tracker, stop_after_detection, now, iter, callAt, answeredAt,
                   callFailed, camera>>
    /\ UNCHANGED dbvars

\* the stream stops delivering frames, or delivers them again
CameraChanges ==
    /\ running
    /\ camera' = IF camera = "up" THEN "down" ELSE "up"
    /\ UNCHANGED <<script, running, cap, frame_count, attendance_marked,
                   attendance_tracker, stop_after_detection, now, iter, callAt, answeredAt,
                   callFailed, pressed>>
    /\ UNCHANGED dbvars

QuitInit ==
    /\ LoopStart
    /\ camera = "up"

\* the steps of the script's own thread: one iteration of its `while True`
LoopStep ==
    \/ Iterate(FALSE, NoEmb, "error", 0, "")
    \/ /\ ~WillProcess
       /\ \E key \in Keys : Iterate(TRUE, NoEmb, "error", 0, key)
    \/ /\ WillProcess
       /\ \E frame \in Frames, answer \in ApiAnswers, delay \in {0, TickStep}, key \in Keys :
             Iterate(TRUE, frame, answer, delay, key)
    \/ Webcam2Iterate(FALSE, NoEmb, "")
    \/ \E frame \in Frames, key \in Keys \ {"r"} : Webcam2Iterate(TRUE, frame, key)
    \/ WebcamIterate(FALSE, NoEmb, "")
    \/ \E frame \in Frames, key \in {"", "q"} : WebcamIterate(TRUE, frame, key)

QuitNext ==
    \/ LoopStep
    \/ PressQ
    \/ CameraChanges

\* the script's thread is never starved: whenever an iteration that changes the
\* state is possible again and again, one is taken
QuitSpec == QuitInit /\ [][QuitNext]_vars /\ SF_vars(LoopStep)

----------------------------------------------------------------------------
(* The wrapper and the server over one store *)

LoopIdle ==
    /\ script = ""
    /\ running = FALSE
    /\ cap = "released"
    /\ frame_count = 0
    /\ attendance_marked = FALSE
    /\ attendance_tracker = <<>>
    /\ stop_after_detection = TRUE
    /\ now = 0
    /\ iter = NoIter
    /\ callAt = <<>>
    /\ answeredAt = <<>>
    /\ callFailed = {}
    /\ camera = "?"
    /\ pressed = ""

\* what the store holds before any FaceDB is constructed: collections of other
\* applications, none named "faces"
OtherCollections == {[name |-> "documents", size |-> 384, distance |-> "Dot"]}

Init ==
    /\ LoopIdle
    /\ collections = OtherCollections
    /\ points = {}
    /\ reachable \in BOOLEAN
    /\ nextId = 0
    /\ db = FALSE
    /\ serverUp = FALSE
    /\ face_app = "None"
    /\ facedb = "None"
    /\ before = {}
    /\ last = NoCall
    /\ resp = NoResp

Next ==
    \/ Construct
    \/ \E name \in Names, emb \in EnrollEmbeddings \cup BadEmbeddings : AddFace(name, emb)
    \/ \E emb \in Embeddings, thr \in Thresholds : SearchFace(emb, TRUE, thr)
    \/ \E emb \in Embeddings : SearchFace(emb, FALSE, 0)
    \/ ListPeople
    \/ \E name \in Names : DeletePerson(name)
    \/ GetStats
    \/ StoreDown
    \/ StoreUp

Spec == Init /\ [][Next /\ UNCHANGED loopvars]_vars

\* the wrapper over a store that already holds one full page of records of one
\* person, enrolled earlier under identifiers that sort first
FullPage == {Point(1 - i, E1, [name |-> "alice"]) : i \in 1..ScrollLimit}

BulkInit ==
    /\ LoopIdle
    /\ collections = _setup_collection({}).collections
    /\ points = FullPage
    /\ reachable = TRUE
    /\ nextId = 0
    /\ db = TRUE
    /\ serverUp = FALSE
    /\ face_app = "None"
    /\ facedb = "None"
    /\ before = points
    /\ last = NoCall
    /\ resp = NoResp

BulkNext ==
    \/ \E e \in Enrollments : AddFace(e[1], e[2])
    \/ ListPeople
    \/ \E name \in Names : DeletePerson(name)
    \/ GetStats

BulkSpec == BulkInit /\ [][BulkNext /\ UNCHANGED loopvars]_vars

\* the server, over a store that the enrollment script fills and empties
ServerNext ==
    \/ Construct
    \/ \E e \in Enrollments : AddFace(e[1], e[2])
    \/ \E name \in Names : DeletePerson(name)
    \/ StoreDown
    \/ StoreUp
    \/ StartServer
    \/ HttpHealth
    \/ \E n \in NameInputs, pid \in PersonnelIds, img \in ImageInputs :
          HttpAddFace(Data(n, pid, img, FALSE, 0))
    \/ HttpAddFace(NoData)
    \/ \E img \in ImageInputs, thr \in Thresholds :
          HttpSearchFace(Data(Absent, Absent, img, TRUE, thr))
    \/ \E img \in ImageInputs : HttpSearchFace(Data(Absent, Absent, img, FALSE, 0))
    \/ HttpSearchFace(NoData)
    \/ HttpListFaces
    \/ \E n \in NameInputs : HttpDeleteFace(Data(n, Absent, Absent, FALSE, 0))
    \/ HttpDeleteFace(NoData)

ServerSpec == Init /\ [][ServerNext /\ UNCHANGED loopvars]_vars

----------------------------------------------------------------------------
(* Properties of the wrapper, checked under Spec *)

WrapperOps == {"add_face", "search_face", "list_people", "delete_person", "get_stats"}

\* the highest similarity of query to a record of pts
BestScore(pts, query) ==
    LET scores == {Cosine(query, p.vector) : p \in pts}
    IN  CHOOSE b \in scores : \A c \in scores : c <= b

\* the store holds a record whose vector is exactly v
Holds(pts, v) == \E p \in pts : p.vector = v

(* C1: after add_face(name, v) has succeeded for a 512-dimensional v, and while the
   store is reachable, search_face(v) with the default threshold returns a match
   whose score is 1.0, the highest similarity any record has, whatever else the
   store holds: both for a search right after the add and for every later search
   made while the record is still stored. *)
C1_AddThenSearch ==
    /\ (last.op = "add_face" /\ last.out.kind = "id" /\ reachable) =>
          \A d \in search_face(points, reachable, last.emb, DefaultThreshold) :
             /\ d.out.kind = "match"
             /\ d.out.score = 100
             /\ \A p \in points : Cosine(last.emb, p.vector) <= d.out.score
    /\ (/\ last.op = "search_face" /\ last.up /\ ~last.thrGiven
        /\ Holds(before, last.emb)) =>
          /\ last.out.kind = "match"
          /\ last.out.score = 100
          /\ \A p \in before : Cosine(last.emb, p.vector) <= last.out.score

\* a search for a stored vector matched, among records of other vectors and names
C1_Witness ==
    /\ last.op = "search_face" /\ last.up /\ ~last.thrGiven
    /\ Holds(before, last.emb)
    /\ last.out.kind = "match" /\ last.out.score = 100
    /\ \E p \in before : p.vector # last.emb
    /\ Cardinality({p.payload.name : p \in before}) > 1
    /\ nextId > Cardinality(before)

(* C2: add_face with an embedding whose length is not 512 raises ValueError,
   issues no upsert and leaves the stored records as they were. *)
C2_RejectsWrongLength ==
    (last.op = "add_face" /\ last.emb.len # 512) =>
        /\ last.out.kind = "raise"
        /\ last.out.exc = "ValueError"
        /\ last.calls = <<>>
        /\ points = before

\* a wrong-length add was rejected over a store that holds records
C2_Witness ==
    /\ last.op = "add_face" /\ last.emb.len # 512
    /\ last.out.kind = "raise"
    /\ points # {}

(* C3: every stored record has a vector of exactly 512 dimensions, and the
   collection is configured for 512 dimensions. *)
C3_StoredVectorsAre512 ==
    /\ \A p \in points : p.vector.len = 512
    /\ \A c \in collections : c.name = "faces" => c.size = 512

\* records are stored, and an add of a longer vector was rejected
C3_Witness ==
    /\ Cardinality(points) >= 2
    /\ last.op = "add_face" /\ last.emb.len > 512
    /\ last.out.kind = "raise"

(* C4: after delete_person(name) has returned True, no stored record has that name,
   list_people() does not contain it, and the records of every other name are
   exactly those stored before. *)
C4_DeleteRemovesAll ==
    (last.op = "delete_person" /\ last.out.kind = "bool" /\ last.out.flag) =>
        /\ \A p \in points : p.payload.name # last.name
        /\ \A i \in 1..Len(list_people(points, TRUE).out.people) :
              list_people(points, TRUE).out.people[i] # last.name
        /\ {p \in points : p.payload.name # last.name}
              = {p \in before : p.payload.name # last.name}

\* a delete removed several records of one name and left another name's record
C4_Witness ==
    /\ last.op = "delete_person" /\ last.out.kind = "bool" /\ last.out.flag
    /\ Cardinality(before \ points) >= 2
    /\ points # {}

(* C7 as stated: with the store unreachable, every wrapper operation (given a
   512-dimensional embedding where it takes one) raises a connection error. *)
C7_Original ==
    (/\ last.op \in WrapperOps /\ ~last.up
     /\ last.op \in {"add_face", "search_face"} => last.emb.len = 512) =>
        /\ last.out.kind = "raise"
        /\ last.out.exc = "ConnectionError"

(* C7, amended: with the store unreachable, add_face (and the constructor) raise the
   connection error; search_face returns None, list_people the empty list,
   delete_person False and get_stats the all-zero statistics; the stored records
   are unchanged. *)
C7_UnreachableOutcomes ==
    (/\ last.op \in WrapperOps \cup {"__init__"} /\ ~last.up
     /\ last.op \in {"add_face", "search_face"} => last.emb.len = 512) =>
        /\ points = before
        /\ last.op \in {"add_face", "__init__"} =>
              last.out.kind = "raise" /\ last.out.exc = "ConnectionError"
        /\ last.op = "search_face" => last.out.kind = "None"
        /\ last.op = "list_people" => last.out.kind = "list" /\ last.out.people = <<>>
        /\ last.op = "delete_person" => last.out.kind = "bool" /\ ~last.out.flag
        /\ last.op = "get_stats" =>
              /\ last.out.kind = "stats"
              /\ last.out.total_faces = 0
              /\ last.out.total_people = 0
              /\ last.out.people = <<>>

\* a search for a stored vector returned None because the store was unreachable
C7_Witness ==
    /\ last.op = "search_face" /\ ~last.up
    /\ Holds(before, last.emb)
    /\ last.out.kind = "None"

(* C8: with the store reachable, search_face(v, threshold) for a 512-dimensional v
   returns the name and score of a stored record of the highest similarity to v
   when that similarity is at or above the threshold, and None otherwise (the
   empty store included); the threshold is 0.55 when the caller gives none. *)
C8_SearchBestAboveThreshold ==
    (last.op = "search_face" /\ last.up /\ last.emb.len = 512) =>
        LET threshold == IF last.thrGiven THEN last.thr ELSE 55
        IN  /\ points = before
            /\ IF before # {} /\ BestScore(before, last.emb) >= threshold
               THEN /\ last.out.kind = "match"
                    /\ last.out.score = BestScore(before, last.emb)
                    /\ \E p \in before :
                          /\ p.payload.name = last.out.name
                          /\ Cosine(last.emb, p.vector) = last.out.score
               ELSE last.out.kind = "None"

\* a search matched the best of two records that both reach the threshold, the
\* lesser one exactly
C8_Witness ==
    /\ last.op = "search_face" /\ last.up
    /\ last.out.kind = "match"
    /\ \E p, q \in before :
          /\ Cosine(last.emb, p.vector) = last.thr
          /\ Cosine(last.emb, q.vector) > last.thr

\* how many times name n occurs in the list l
Occurrences(l, n) == Cardinality({i \in 1..Len(l) : l[i] = n})

(* C17: a successful add_face never overwrites: it leaves every record stored before
   in place and adds exactly one record, under an identifier no stored record had,
   with the name and the vector given, whether or not the name (or the very same
   vector) is stored already; total_faces of get_stats grows by one with it and
   equals the number of stored records, and list_people shows the name once (the
   store holding no more records than one scroll page, see C16). *)
C17_DuplicateAdds ==
    /\ (last.op = "add_face" /\ last.out.kind = "id") =>
          /\ before \subseteq points
          /\ Cardinality(points) = Cardinality(before) + 1
          /\ \A p \in points \ before :
                /\ p.id = last.out.id
                /\ p.id \notin {q.id : q \in before}
                /\ p.payload.name = last.name
                /\ p.vector = last.emb
          /\ get_stats(points, TRUE).out.total_faces
                = get_stats(before, TRUE).out.total_faces + 1
          /\ Cardinality(points) <= ScrollLimit =>
                Occurrences(list_people(points, TRUE).out.people, last.name) = 1
    /\ (last.op = "get_stats" /\ last.up) =>
          /\ last.out.total_faces = Cardinality(before)
          /\ \A n \in Names : Occurrences(last.out.people, n) <= 1
          /\ Cardinality(before) <= ScrollLimit =>
                \A n \in Names :
                   Occurrences(last.out.people, n)
                      = IF \E p \in before : p.payload.name = n THEN 1 ELSE 0
    /\ Cardinality({p.id : p \in points}) = Cardinality(points)

\* the third add of one name with one vector: three records of it are stored
C17_Witness ==
    /\ last.op = "add_face" /\ last.out.kind = "id"
    /\ Cardinality({p \in points : p.payload.name = last.name /\ p.vector = last.emb}) = 3
    /\ get_stats(points, TRUE).out.total_faces = 3
    /\ get_stats(points, TRUE).out.people = <<last.name>>

(* C16 as stated: with the store reachable, list_people() returns the names of the
   stored records in ascending order without duplicates: a name is in the list if
   and only if at least one stored record has it. *)
C16_ListPeopleComplete ==
    (last.op = "list_people" /\ last.up) =>
        /\ last.out.kind = "list"
        /\ \A i \in 1..(Len(last.out.people) - 1) :
              NameRank(last.out.people[i]) < NameRank(last.out.people[i + 1])
        /\ \A n \in Names :
              (\E i \in 1..Len(last.out.people) : last.out.people[i] = n)
                 <=> (\E p \in before : p.payload.name = n)

\* the collections named "faces"
Faces(cols) == {c \in cols : c.name = "faces"}

(* C21: constructing FaceDB creates the collection "faces" (512 dimensions, cosine
   distance) exactly when no collection of that name exists, and then with one
   create_collection call; when it exists, construction makes no creating call and
   leaves the collections and every stored record as they were; other collections
   are never touched, and a construction that fails changes nothing. *)
C21_ConstructIdempotent ==
    [][Construct =>
          /\ {c \in collections' : c.name # "faces"} = {c \in collections : c.name # "faces"}
          /\ IF ~reachable
             THEN /\ collections' = collections
                  /\ points' = points
                  /\ last'.out.kind = "raise"
             ELSE IF Faces(collections) # {}
             THEN /\ collections' = collections
                  /\ points' = points
                  /\ last'.calls = <<"get_collections">>
             ELSE /\ Faces(collections')
                        = {[name |-> "faces", size |-> 512, distance |-> "Cosine"]}
                  /\ last'.calls = <<"get_collections", "create_collection">>
                  /\ points' = points]_vars

\* a FaceDB was constructed over a collection that holds records: no creating call
\* was made and the records are in place
C21_Witness ==
    /\ last.op = "__init__" /\ last.out.kind = "None"
    /\ last.calls = <<"get_collections">>
    /\ Cardinality(points) >= 2
    /\ points = before
    /\ Cardinality(Faces(collections)) = 1
    /\ Cardinality(collections) = 2

\* the client calls that read the store
ReadCalls == {"search", "scroll", "get_collection"}

(* C25: search_face, list_people and get_stats never change the store: whether the
   call returned a result, returned its fallback (None, the empty list, the zero
   statistics) or raised, the stored records are those stored before it, and the
   only client calls it made are reads. *)
C25_ReadsChangeNothing ==
    (last.op \in {"search_face", "list_people", "get_stats"}) =>
        /\ points = before
        /\ \A i \in 1..Len(last.calls) : last.calls[i] \in ReadCalls
        /\ last.out.kind \in {"match", "None", "list", "stats", "raise"}

\* statistics were read over three stored records of two people
C25_Witness ==
    /\ last.op = "get_stats" /\ last.up
    /\ last.out.total_faces = 3 /\ last.out.total_people = 2
    /\ Cardinality(points) = 3

----------------------------------------------------------------------------
(* Properties of the server, checked under ServerSpec *)

\* the request's JSON body lacks the field (or there is no JSON body)
Lacks(data, field) == ~data.present \/ data[field] = Absent

(* C5: POST /add_face answers 500 when the database handle is None and, the handle
   being set, 400 when name or image is absent from the body; in both cases no
   wrapper call is made and the stored records are unchanged. *)
C5_AddFaceRejects ==
    (resp.route = "/add_face") =>
        /\ facedb = "None" => resp.status = 500
        /\ (facedb # "None" /\ (Lacks(resp.data, "name") \/ Lacks(resp.data, "image")))
              => resp.status = 400
        /\ (facedb = "None" \/ Lacks(resp.data, "name") \/ Lacks(resp.data, "image"))
              => points = before /\ last = NoCall

\* a request without a name was answered 400 by a connected server over a store
\* that holds records
C5_Witness ==
    /\ resp.route = "/add_face" /\ facedb # "None"
    /\ resp.data.present /\ resp.data.name = Absent /\ resp.data.image = "img_e1"
    /\ resp.status = 400
    /\ points # {}

(* C9 as stated: database connected, model loaded, a non-empty name and personnelId
   and an image with at least one face: POST /add_face stores exactly one new record
   carrying the name and answers 200 with success and the name and personnelId
   echoed. *)
C9_AddFaceStores ==
    (/\ resp.route = "/add_face" /\ facedb # "None" /\ face_app # "None" /\ reachable
     /\ resp.data.present
     /\ ~Falsy(resp.data.name) /\ ~Falsy(resp.data.personnelId)
     /\ Len(FacesOf(resp.data.image)) >= 1) =>
        /\ resp.status = 200
        /\ resp.json.success = "true"
        /\ resp.json.name = resp.data.name
        /\ resp.json.personnelId = resp.data.personnelId
        /\ Cardinality(points \ before) = 1
        /\ \A p \in points \ before : p.payload.name = resp.data.name

(* C10 as stated: database connected and store reachable: GET /list_faces answers
   200 with success and a count equal to the length of the list it returns. *)
C10_ListFacesSucceeds ==
    (resp.route = "/list_faces" /\ facedb # "None" /\ reachable) =>
        /\ resp.status = 200
        /\ resp.json.success = "true"
        /\ resp.json.count = Len(resp.json.faces)

(* C11 as stated: database connected: DELETE /delete_face with a non-empty name
   removes every stored record of that name and answers 200 with success=true; it
   answers 404 only when the wrapper's delete returned False, and 400 when the
   name is absent. *)
C11_DeleteFaceRemoves ==
    (resp.route = "/delete_face" /\ facedb # "None") =>
        /\ (resp.data.present /\ ~Falsy(resp.data.name) /\ reachable) =>
              /\ resp.status = 200
              /\ resp.json.success = "true"
              /\ \A p \in points : p.payload.name # resp.data.name
        /\ resp.status = 404 =>
              last.op = "delete_person" /\ last.out.kind = "bool" /\ ~last.out.flag
        /\ (resp.data.present /\ resp.data.name = Absent) => resp.status = 400

\* the body has every field the route requires, and the image decodes
WellFormed(r) ==
    /\ r.data.present
    /\ ~Falsy(r.data.image)
    /\ base64_to_cv2_image(r.data.image).kind # "raise"
    /\ r.route = "/add_face" => ~Falsy(r.data.name) /\ ~Falsy(r.data.personnelId)

(* C12 as stated: database connected and the face model not loaded (face_app is
   None): POST /add_face and POST /search_face with a well-formed body and a
   decodable image answer 500, not 400. *)
C12_ModelFailureIs500 ==
    (/\ resp.route \in {"/add_face", "/search_face"}
     /\ facedb # "None" /\ face_app = "None"
     /\ WellFormed(resp)) =>
        resp.status = 500

(* C18: database connected, body otherwise well-formed: POST /add_face and POST
   /search_face answer 400 with an error text when the image does not decode or
   shows no face, make no wrapper call and leave the stored records unchanged;
   with several faces in the image the request is not answered 400, and the
   search is made with the embedding of the first face. *)
C18_ImageErrors ==
    (/\ resp.route \in {"/add_face", "/search_face"}
     /\ facedb # "None"
     /\ resp.data.present /\ ~Falsy(resp.data.image)
     /\ resp.route = "/add_face" =>
           ~Falsy(resp.data.name) /\ ~Falsy(resp.data.personnelId)) =>
        LET faces == FacesOf(resp.data.image)
        IN  /\ (resp.data.image = "garbage" \/ Len(faces) = 0) =>
                  /\ resp.status = 400
                  /\ resp.json.error # ""
                  /\ last = NoCall
                  /\ points = before
            /\ (Len(faces) > 1 /\ face_app # "None") =>
                  /\ resp.status # 400
                  /\ resp.route = "/search_face" =>
                        /\ last.op = "search_face"
                        /\ last.emb = faces[1]
                        /\ resp.status = 200

\* a picture of two faces was searched for and its first face was matched
C18_Witness ==
    /\ resp.route = "/search_face"
    /\ Len(FacesOf(resp.data.image)) > 1
    /\ resp.status = 200 /\ resp.json.found = "true"
    /\ last.emb = FacesOf(resp.data.image)[1]
    /\ resp.json.name = "bob"

(* C19: database connected, model loaded, an image with a face: POST /search_face
   answers 200; the wrapper's search is made with the body's threshold, or 0.55
   when the body has none; found is true, with the match's name and score, exactly
   when that search returned a match, and false otherwise; the response carries
   the threshold used. *)
C19_SearchFaceResponse ==
    (/\ resp.route = "/search_face"
     /\ facedb # "None" /\ face_app # "None"
     /\ WellFormed(resp)
     /\ Len(FacesOf(resp.data.image)) >= 1) =>
        LET threshold == IF resp.data.thresholdGiven THEN resp.data.threshold ELSE 55
        IN  /\ resp.status = 200
            /\ last.op = "search_face"
            /\ last.thr = threshold
            /\ resp.json.threshold = threshold
            /\ resp.json.found \in {"true", "false"}
            /\ resp.json.found = "true" <=> last.out.kind = "match"
            /\ resp.json.found = "true" =>
                  /\ resp.json.name = last.out.name
                  /\ resp.json.score = last.out.score
            /\ points = before

\* a search without a threshold found, among several records, one of score 0.60
C19_Witness ==
    /\ resp.route = "/search_face" /\ resp.status = 200
    /\ ~resp.data.thresholdGiven
    /\ resp.json.found = "true"
    /\ resp.json.score = 60
    /\ resp.json.threshold = 55
    /\ Cardinality(points) >= 2

----------------------------------------------------------------------------
(* Properties of the attendance loop, checked under LoopSpec *)

(* C6 as stated: once an attendance call for a person has been made, no second call
   for that person is made before ATTENDANCE_COOLDOWN seconds have passed since it,
   and a match seen at or after the end of that window triggers a new call. *)
C6_Original ==
    script = "webcam_attendance.py" =>
        /\ iter.called => \A t \in iter.prevCall : iter.at - t >= 30
        /\ (/\ iter.processed /\ iter.match # ""
            /\ \A t \in iter.prevCall : iter.at - t >= 30) => iter.called

(* C6, amended: once an attendance call for a person has returned a non-empty JSON
   answer (HTTP 200), no further call for that person is made before
   ATTENDANCE_COOLDOWN seconds have passed since it returned, unless the tracker
   was reset with 'r' in between; a match for that person on a processed frame at
   or after the end of that window (or with no such call before) triggers a call. *)
C6_Cooldown ==
    script = "webcam_attendance.py" =>
        /\ iter.called => \A t \in iter.prevAnswered : iter.at - t >= 30
        /\ (/\ iter.processed /\ iter.match # ""
            /\ \A t \in iter.prevAnswered : iter.at - t >= 30) => iter.called

\* a person marked before is called for again, the window having elapsed
C6_Witness ==
    /\ iter.called
    /\ iter.prevAnswered # {}
    /\ \E p \in People \ {iter.person_id} :
          p \in DOMAIN attendance_tracker /\ iter.at - attendance_tracker[p] < 30

(* C13 as stated: when the matched stored record carries a personnel id, the
   attendance loop uses that personnel id, not the name, as the personnelId it
   posts and as the key of the cooldown tracker; it uses the name only when the
   record has none. *)
C13_UsesPersonnelId ==
    (script = "webcam_attendance.py" /\ iter.processed /\ iter.match # "") =>
        \A p \in points :
           p.payload.name = iter.match =>
              /\ iter.person_id = IF "personnelId" \in DOMAIN p.payload
                                  THEN p.payload.personnelId
                                  ELSE p.payload.name
              /\ iter.marked => iter.person_id \in DOMAIN attendance_tracker \/ iter.key = "r"

\* the loops that read an RTSP stream
RtspScripts == {"webcam2.py", "webcam_attendance.py"}

(* C14 as stated: in each of the three loops a failed frame read does not end the
   loop: the capture is released and reopened after a delay and the loop goes on;
   no detection, search or attendance call happens on that iteration. *)
C14_Original ==
    iter.failed =>
        /\ running
        /\ cap = "open"
        /\ iter.cap_calls = <<"release", "sleep", "VideoCapture", "set">>
        /\ ~iter.processed /\ ~iter.searched /\ ~iter.called

(* C14, amended: in the RTSP loops (webcam2.py, webcam_attendance.py) a failed frame
   read does not end the loop: the capture is released, reopened after a delay and
   the loop goes on; in webcam.py a failed read ends the loop and the capture is
   released; in all three no detection, search or attendance call happens on the
   iteration whose read failed, and the store and the tracker are left alone. *)
C14_FailedRead ==
    iter.failed =>
        /\ script \in RtspScripts =>
              /\ running
              /\ cap = "open"
              /\ iter.cap_calls = <<"release", "sleep", "VideoCapture", "set">>
        /\ script = "webcam.py" =>
              /\ ~running
              /\ cap = "released"
              /\ iter.cap_calls = <<"release">>
        /\ ~iter.processed /\ ~iter.searched /\ ~iter.called /\ ~iter.marked
        /\ frame_count = iter.countBefore

\* a read failed in the attendance loop after frames were processed and attendance
\* was marked, and the loop goes on
C14_Witness ==
    /\ script = "webcam_attendance.py"
    /\ iter.failed /\ running /\ cap = "open"
    /\ frame_count >= FACE_DETECTION_INTERVAL
    /\ attendance_tracker # <<>>

(* C15: in the RTSP loops every successful read advances the frame count by one
   and a failed read leaves it alone; detection runs on a frame exactly when its
   count is a multiple of 5 (and, in webcam_attendance.py, the loop is not paused),
   and search_face is called on no other frame. *)
C15_EveryNthFrame ==
    script \in RtspScripts =>
        /\ iter.failed => frame_count = iter.countBefore /\ ~iter.processed
        /\ iter.ret =>
              /\ frame_count = iter.countBefore + 1
              /\ iter.frame_count = frame_count
              /\ iter.processed <=>
                    /\ frame_count % 5 = 0
                    /\ ~(stop_after_detection /\ iter.was_marked)
              /\ iter.searched => iter.processed
              /\ iter.called => iter.searched

\* the tenth frame of the attendance loop was processed and a face matched in it
C15_Witness ==
    /\ script = "webcam_attendance.py"
    /\ iter.ret /\ iter.processed /\ iter.searched
    /\ frame_count = 10
    /\ iter.match # ""

(* C20: webcam_attendance.py with STOP_AFTER_DETECTION: on a frame read while the
   marked flag is set there is no detection, search or attendance call, and the
   flag stays set unless 'r' is pressed; 'r' empties the tracker and clears the
   flag, and with the flag clear detection runs again on every fifth frame; the
   status text of a frame is PAUSED exactly when STOP_AFTER_DETECTION holds and
   the flag is set when the frame is drawn. *)
C20_PauseUntilReset ==
    (script = "webcam_attendance.py" /\ iter.ret) =>
        /\ (stop_after_detection /\ iter.was_marked) =>
              /\ ~iter.processed /\ ~iter.searched /\ ~iter.called
              /\ iter.key # "r" => attendance_marked
        /\ iter.key = "r" => attendance_tracker = <<>> /\ ~attendance_marked
        /\ (~iter.was_marked /\ iter.frame_count % 5 = 0) => iter.processed
        /\ iter.status_text = "PAUSED" <=>
              stop_after_detection /\ (iter.was_marked \/ iter.marked)
        /\ iter.status_text \in {"PAUSED", "ACTIVE"}
        /\ (iter.marked /\ iter.key # "r") => attendance_marked

\* after a mark, a pause and a reset, a face is matched and marked again
C20_Witness ==
    /\ script = "webcam_attendance.py" /\ stop_after_detection
    /\ iter.ret /\ iter.processed /\ iter.marked
    /\ ~iter.was_marked
    /\ iter.frame_count >= 10
    /\ callAt # <<>> /\ iter.prevCall # {}
    /\ iter.status_text = "PAUSED"

(* C22 as stated: in webcam_attendance.py attendance counts as marked (the tracker
   gets the person's time, attendance_marked is set, the status goes to PAUSED
   under STOP_AFTER_DETECTION) only when the webhook answered 200 with
   success=true; after a 200 answer with success=false the tracker and the flag
   are as they were and recognition is not paused. *)
C22_MarkedOnlyOnSuccess ==
    (script = "webcam_attendance.py" /\ iter.called) =>
        /\ iter.marked => iter.answer = "200 success=true"
        /\ (iter.answer = "200 success=false" /\ iter.key # "r") =>
              /\ attendance_marked = iter.was_marked
              /\ iter.person_id \in DOMAIN attendance_tracker => iter.prevAnswered # {}
              /\ iter.status_text = "ACTIVE"

(* C23: in webcam_attendance.py a webhook call that fails (another status than
   200, a timeout, an exception) returns None and marks nothing: the iteration
   leaves attendance_tracker and attendance_marked as they were (or as 'r' resets
   them), no cooldown starts for the person, and the next processed frame that
   matches a person whose last call failed calls the webhook again. *)
C23_FailedCallRetried ==
    /\ [](script = "webcam_attendance.py" =>
             /\ (iter.called /\ iter.answer = "error") =>
                   /\ iter.result = "None"
                   /\ ~iter.marked
                   /\ iter.person_id \in callFailed
                   /\ should_mark_attendance(attendance_tracker, now, iter.person_id)
             /\ (iter.processed /\ iter.match # "" /\ iter.prevFailed) => iter.called)
    /\ [][(/\ script = "webcam_attendance.py"
           /\ frame_count' = frame_count + 1
           /\ iter'.called /\ iter'.answer = "error")
          => /\ attendance_tracker' = IF iter'.key = "r" THEN <<>> ELSE attendance_tracker
             /\ attendance_marked' = IF iter'.key = "r" THEN FALSE ELSE attendance_marked]_vars

\* the call for a person failed, and the next processed frame that matched them
\* called again
C23_Witness ==
    /\ script = "webcam_attendance.py"
    /\ iter.processed /\ iter.match # "" /\ iter.prevFailed
    /\ iter.called
    /\ iter.frame_count >= 10
    /\ iter.prevCall # {}

(* C24 as stated: in the RTSP loops, once the user has pressed 'q' the loop
   eventually exits and releases the capture, whatever the loop is doing then,
   also while the stream keeps failing and the loop is in its reconnect cycle. *)
C24_QuitExits ==
    (running /\ pressed = "q") ~> (~running /\ cap = "released")

====
